---- MODULE Spec2Model ----
\* DuoSpend: two clients (one per partner) keep an offline-first copy of the
\* shared ledger and reconcile it with a spreadsheet-backed remote store.
\* Client side: utils/sync.ts performSync (atomic variant) and the two sync
\* controls of components (Dashboard.handleSync, SettingsView sync button).
\* Remote side: the Apps Script v4.0 doPost embedded in utils/sync.ts.
EXTENDS Integers, Sequences, FiniteSets, TLC

\* ------------------------------------------------------------------ bounds
\* longest local transaction list the add form is let to build
MaxTx == 2

\* ---------------------------------------------------------------- universe
\* the two devices sharing one Sync URL (README Step 3)
Clients == {"c1", "c2"}
\* the two sync controls of one client, each with its own isSyncing state
Controls == {"dashboard", "settings"}
\* one slot per (client, control): an invocation of the async handler
Procs == Clients \X Controls

ClientOf(p) == p[1]
ControlOf(p) == p[2]

\* category registry (a two-entry cut of types.ts Category)
Categories == <<"Food", "Gas">>
CategorySet == {Categories[i] : i \in 1..Len(Categories)}

\* budgets: Record<string, number>; NoLimit marks a key that is not present
NoLimit == -1
DefaultLimit == 100
EditedLimit == 50
EmptyBudgets == [c \in CategorySet |-> NoLimit]
DefaultBudgets == [c \in CategorySet |-> DefaultLimit]
BudgetKeys(b) == {c \in CategorySet : b[c] # NoLimit}

\* transactions the add form submits in this model (amounts in cents)
TxA ==
  [id |-> "a", userId |-> "PARTNER_1", totalAmount |-> 3000,
   splits |-> <<[categoryName |-> "Food", amount |-> 3000]>>]
TxB ==
  [id |-> "b", userId |-> "PARTNER_2", totalAmount |-> 1000,
   splits |-> <<[categoryName |-> "Food", amount |-> 400],
               [categoryName |-> "Gas", amount |-> 600]>>]
TxPool == {TxA, TxB}

Ids(txs) == {txs[i].id : i \in 1..Len(txs)}

\* ------------------------------------------------------------- wire values
\* what fetch + response.json() can hand to performSync
NoResponse ==
  [kind |-> "none", by |-> "none", status |-> "", message |-> "",
   hasTransactions |-> FALSE, transactions |-> <<>>,
   hasBudgets |-> FALSE, budgets |-> EmptyBudgets]

JsonResponse(by, status, message, hasTx, txs, hasB, b) ==
  [kind |-> "json", by |-> by, status |-> status, message |-> message,
   hasTransactions |-> hasTx, transactions |-> txs,
   hasBudgets |-> hasB, budgets |-> b]

FailedResponse(kind) == [NoResponse EXCEPT !.kind = kind, !.by = "transport"]

NoPayload == [transactions |-> <<>>, budgets |-> EmptyBudgets]

VARIABLES
  transactions,   \* [Clients -> Seq(Tx)]      App state `transactions`
  budgets,        \* [Clients -> budget map]   App state `budgets`
  lastSync,       \* [Clients -> "Never" | "time"]  App state `lastSync`
  isSyncing,      \* [Procs -> BOOLEAN]        the control's busy flag
  pc,             \* [Procs -> "Idle" | "Requesting" | "Blocked" | "Alerting"]
  sent,           \* [Procs -> payload]        arguments captured by the handler's closure
  stage,          \* [Procs -> "none" | "req" | "posted" | "resp"]  where the round trip is
  resp,           \* [Procs -> response]       what fetch will hand back
  how,            \* [Procs -> how performSync ended, while the handler's alert is open]
  caught,         \* [Procs -> message of the Error in the catch block]
  alert,          \* [Procs -> text of the alert() the handler is showing]
  sheetTx,        \* rows of the "Transactions" sheet below the header
  sheetBudgets,   \* rows of the "Budgets" sheet below the header
  lastPush        \* transactions of the last handled request that carried any

vars ==
  <<transactions, budgets, lastSync, isSyncing, pc, sent, stage, resp,
    how, caught, alert, sheetTx, sheetBudgets, lastPush>>

clientVars == <<transactions, budgets, lastSync>>
procVars == <<isSyncing, pc, sent, stage, resp, how, caught, alert>>
remoteVars == <<sheetTx, sheetBudgets, lastPush>>

Init ==
  /\ transactions = [c \in Clients |-> <<>>]
  /\ budgets = [c \in Clients |-> DefaultBudgets]
  /\ lastSync = [c \in Clients |-> "Never"]
  /\ isSyncing = [p \in Procs |-> FALSE]
  /\ pc = [p \in Procs |-> "Idle"]
  /\ sent = [p \in Procs |-> NoPayload]
  /\ stage = [p \in Procs |-> "none"]
  /\ resp = [p \in Procs |-> NoResponse]
  /\ how = [p \in Procs |-> "none"]
  /\ caught = [p \in Procs |-> ""]
  /\ alert = [p \in Procs |-> "none"]
  /\ sheetTx = <<>>
  /\ sheetBudgets = <<>>
  /\ lastPush = <<>>

\* confirm() and alert() are modal: while one is open nothing else runs in that tab
DialogOpen(c) == \E ctl \in Controls : pc[<<c, ctl>>] \in {"Blocked", "Alerting"}

\* ------------------------------------------------------------- local edits
\* onAdd: setTransactions(p => [...p, t])
addTransaction(c, t) ==
  /\ ~DialogOpen(c)
  /\ Len(transactions[c]) < MaxTx
  /\ t.id \notin Ids(transactions[c])
  /\ transactions' = [transactions EXCEPT ![c] = Append(@, t)]
  /\ UNCHANGED <<budgets, lastSync, procVars, remoteVars>>

FilterOutId(txs, id) == SelectSeq(txs, LAMBDA t : t.id # id)

\* onDelete: setTransactions(p => p.filter(t => t.id !== id))
deleteTransaction(c, id) ==
  /\ ~DialogOpen(c)
  /\ id \in Ids(transactions[c])
  /\ transactions' = [transactions EXCEPT ![c] = FilterOutId(@, id)]
  /\ UNCHANGED <<budgets, lastSync, procVars, remoteVars>>

\* SettingsView.handleBudgetChange: setBudgets(prev => ({...prev, [cat]: amount}))
handleBudgetChange(c, cat, amount) ==
  /\ ~DialogOpen(c)
  /\ budgets[c][cat] # amount
  /\ budgets' = [budgets EXCEPT ![c][cat] = amount]
  /\ UNCHANGED <<transactions, lastSync, procVars, remoteVars>>

\* SettingsView.handleClearTransactions, confirmed: setTransactions([])
handleClearTransactions(c) ==
  /\ ~DialogOpen(c)
  /\ transactions[c] # <<>>
  /\ transactions' = [transactions EXCEPT ![c] = <<>>]
  /\ UNCHANGED <<budgets, lastSync, procVars, remoteVars>>

\* ------------------------------------------------- remote script v4.0 (doPost)
Partners == {"PARTNER_1", "PARTNER_2"}

\* JSON.stringify(t.splits) as written to the SplitsJSON column
StringifySplits(splits) == [parses |-> TRUE, value |-> splits]

\* variant that writes the row of the category-column script, whose sixth cell is
\* the first split's category; C24 depends on the splits being written as JSON
RowOf_CategoryColumn(t) ==
  [id |-> t.id, userId |-> t.userId, totalAmount |-> t.totalAmount,
   splitsJSON |-> [parses |-> FALSE, value |-> <<>>]]

\* txSheet.appendRow([t.id, t.date, t.description, t.userId, t.totalAmount, JSON.stringify(t.splits)])
RowOf(t) ==
  [id |-> t.id, userId |-> t.userId, totalAmount |-> t.totalAmount,
   splitsJSON |-> StringifySplits(t.splits)]

\* variant whose catch leaves `splits = []`; C16 depends on the fallback split
ParseSplits_NoFallback(cell, total) ==
  IF cell.parses THEN cell.value ELSE <<>>

\* try { splits = JSON.parse(cell) } catch (e) { splits = [{categoryName: 'Other', amount: Number(total)}] }
ParseSplits(cell, total) ==
  IF cell.parses THEN cell.value
  ELSE <<[categoryName |-> "Other", amount |-> total]>>

\* the object pushed to result.transactions for one sheet row
TxOfRow(r) ==
  [id |-> r.id, userId |-> r.userId, totalAmount |-> r.totalAmount,
   splits |-> ParseSplits(r.splitsJSON, r.totalAmount)]

RECURSIVE MapRows(_, _)
MapRows(rows, i) ==
  IF i > Len(rows) THEN <<>>
  ELSE IF rows[i].id = "" THEN MapRows(rows, i + 1)
  ELSE <<TxOfRow(rows[i])>> \o MapRows(rows, i + 1)

\* step 3, transactions: every row whose ID cell is truthy, in sheet order
ReadTransactions(rows) == MapRows(rows, 1)

\* variant of step 1 without the length test (the v2.5 script: clear, then append
\* whatever came); C7 depends on the test
WriteTransactions_Always(rows, txs) ==
  [i \in 1..Len(txs) |-> RowOf(txs[i])]

\* variant of step 1 that appends to the rows already there instead of clearing
\* first; C8 depends on the clear
WriteTransactions_Append(rows, txs) ==
  IF Len(txs) > 0 THEN rows \o [i \in 1..Len(txs) |-> RowOf(txs[i])] ELSE rows

\* step 1: "Only if provided and not empty": clear, header, one row per transaction
WriteTransactions(rows, txs) ==
  IF Len(txs) > 0 THEN [i \in 1..Len(txs) |-> RowOf(txs[i])] ELSE rows

\* Object.entries(budgets) in registry order
RECURSIVE BudgetRows(_, _)
BudgetRows(b, i) ==
  IF i > Len(Categories) THEN <<>>
  ELSE IF b[Categories[i]] = NoLimit THEN BudgetRows(b, i + 1)
  ELSE <<[category |-> Categories[i], limit |-> b[Categories[i]]]>> \o BudgetRows(b, i + 1)

\* step 2: written only when the map has at least one key
WriteBudgets(rows, b) ==
  IF BudgetKeys(b) # {} THEN BudgetRows(b, 1) ELSE rows

\* step 3, budgets: result.budgets[row[0]] = Number(row[1]) for truthy row[0]; later rows win
RECURSIVE FoldBudgets(_, _, _)
FoldBudgets(rows, i, acc) ==
  IF i > Len(rows) THEN acc
  ELSE IF rows[i].category = "" THEN FoldBudgets(rows, i + 1, acc)
  ELSE FoldBudgets(rows, i + 1, [acc EXCEPT ![rows[i].category] = rows[i].limit])

ReadBudgets(rows) == FoldBudgets(rows, 1, EmptyBudgets)

\* updateYearlySummarySheets dereferences userMonthMap[year][t.userId][monthIdx]
\* and t.splits.forEach: a row whose user is not one of the two roles throws
SummaryThrows(txs) == \E i \in 1..Len(txs) : txs[i].userId \notin Partners

\* the snapshot the script reads back for its response
SnapshotResponse(txRows, bRows) ==
  JsonResponse("script", "success", "", TRUE, ReadTransactions(txRows),
               TRUE, ReadBudgets(bRows))

\* variant of doPost that reads the sheets for its response before it writes them;
\* C9 depends on the order write, then read
doPost_SnapshotBeforeWrite(txRows, bRows, payload) ==
  [sheetTx |-> WriteTransactions(txRows, payload.transactions),
   sheetBudgets |-> WriteBudgets(bRows, payload.budgets),
   body |-> SnapshotResponse(txRows, bRows)]

\* doPost as a whole: the sheets after the request and the body it answers with
doPost(txRows, bRows, payload) ==
  IF Len(payload.transactions) > 0 /\ SummaryThrows(payload.transactions)
  THEN [sheetTx |-> WriteTransactions(txRows, payload.transactions),
        sheetBudgets |-> bRows,
        body |-> JsonResponse("script", "error", "TypeError", FALSE, <<>>, FALSE, EmptyBudgets)]
  ELSE LET newTx == WriteTransactions(txRows, payload.transactions)
           newB == WriteBudgets(bRows, payload.budgets)
       IN [sheetTx |-> newTx, sheetBudgets |-> newB,
           body |-> SnapshotResponse(newTx, newB)]

\* --------------------------------------------------------- sync, client side
\* handler up to `await fetch(...)`: busy flag set, arguments captured, request sent.
\* The Sync URL is taken as configured (it contains 'exec'); the dashboard button is
\* disabled while its own isSyncing is set, and one invocation per control is in flight.
StartSync(p) ==
  LET c == ClientOf(p) IN
  /\ ~DialogOpen(c)
  /\ pc[p] = "Idle"
  /\ ~isSyncing[p]
  /\ isSyncing' = [isSyncing EXCEPT ![p] = TRUE]
  /\ pc' = [pc EXCEPT ![p] = "Requesting"]
  /\ sent' = [sent EXCEPT ![p] = [transactions |-> transactions[c], budgets |-> budgets[c]]]
  /\ stage' = [stage EXCEPT ![p] = "req"]
  /\ UNCHANGED <<clientVars, resp, how, caught, alert, remoteVars>>

\* the deployed script handles the request and answers in the same round trip
RemoteDoPost(p) ==
  /\ stage[p] = "req"
  /\ LET out == doPost(sheetTx, sheetBudgets, sent[p]) IN
       /\ sheetTx' = out.sheetTx
       /\ sheetBudgets' = out.sheetBudgets
       /\ resp' = [resp EXCEPT ![p] = out.body]
  /\ lastPush' = IF Len(sent[p].transactions) > 0 THEN sent[p].transactions ELSE lastPush
  /\ stage' = [stage EXCEPT ![p] = "resp"]
  /\ UNCHANGED <<clientVars, isSyncing, pc, sent, how, caught, alert>>

\* fetch rejects, answers with a non-OK status, or with a body that is not JSON,
\* before the script ever ran
FailureKinds == {"throw", "http", "unparsable"}

RequestFails(p, kind) ==
  /\ stage[p] = "req"
  /\ stage' = [stage EXCEPT ![p] = "resp"]
  /\ resp' = [resp EXCEPT ![p] = FailedResponse(kind)]
  /\ UNCHANGED <<clientVars, isSyncing, pc, sent, how, caught, alert, remoteVars>>

\* the script ran but its answer never arrives (connection dropped)
ResponseLost(p) ==
  /\ stage[p] = "resp"
  /\ pc[p] = "Requesting"
  /\ resp[p].kind = "json"
  /\ resp' = [resp EXCEPT ![p] = FailedResponse("throw")]
  /\ UNCHANGED <<clientVars, isSyncing, pc, sent, stage, how, caught, alert, remoteVars>>

\* an endpoint that is not the v4.0 script (the Sync URL is whatever the user
\* pasted): any JSON body the wire allows, fields present or missing
OtherBodies ==
  {JsonResponse("other", "error", m, FALSE, <<>>, FALSE, EmptyBudgets) : m \in {"", "boom"}}
  \cup
  {JsonResponse("other", "success", "", ht, IF ht THEN t ELSE <<>>, hb, EmptyBudgets) :
     ht \in BOOLEAN, t \in {<<>>, <<TxA>>}, hb \in BOOLEAN}

RespondOther(p, body) ==
  /\ stage[p] = "req"
  /\ stage' = [stage EXCEPT ![p] = "resp"]
  /\ resp' = [resp EXCEPT ![p] = body]
  /\ UNCHANGED <<clientVars, isSyncing, pc, sent, how, caught, alert, remoteVars>>

\* ---- performSync after the await
ServerErrorText == "Server error during sync"

\* the Error performSync throws for this response, "" when it throws none
\*   fetch rejects                      -> the rejection itself
\*   !response.ok                       -> Error(`Cloud sync failed: ${status}`)
\*   response.json() rejects            -> the SyntaxError
\*   data.status === "error"            -> Error(data.message || "Server error during sync")
\* variant without `if (!response.ok) throw`; C1 depends on that test
ThrownError_NoOkCheck(r) ==
  IF r.kind = "throw" THEN "Failed to fetch"
  ELSE IF r.kind = "unparsable" THEN "SyntaxError"
  ELSE IF r.kind = "json" /\ r.status = "error"
       THEN (IF r.message # "" THEN r.message ELSE ServerErrorText)
  ELSE ""

\* variant without `if (data.status === "error") throw`; C4 depends on that test
ThrownError_NoStatusCheck(r) ==
  IF r.kind = "throw" THEN "Failed to fetch"
  ELSE IF r.kind = "http" THEN "Cloud sync failed"
  ELSE IF r.kind = "unparsable" THEN "SyntaxError"
  ELSE ""

ThrownError(r) ==
  IF r.kind = "throw" THEN "Failed to fetch"
  ELSE IF r.kind = "http" THEN "Cloud sync failed"
  ELSE IF r.kind = "unparsable" THEN "SyntaxError"
  ELSE IF r.status = "error" THEN (IF r.message # "" THEN r.message ELSE ServerErrorText)
  ELSE ""

\* variant of the guard without `!data.transactions`; C2 depends on that disjunct
GuardFires_EmptyListOnly(localTxs, r) ==
  Len(localTxs) > 0 /\ r.hasTransactions /\ Len(r.transactions) = 0

\* transactions.length > 0 && (!data.transactions || data.transactions.length === 0)
GuardFires(localTxs, r) ==
  Len(localTxs) > 0 /\ (~r.hasTransactions \/ Len(r.transactions) = 0)

\* `return { transactions, budgets }`: the captured arguments, shaped like a body
KeepLocal(payload) ==
  JsonResponse("local", "", "", TRUE, payload.transactions, TRUE, payload.budgets)

\* ---- the handler after `await performSync(...)`
\* variant that appends the adopted list to the current one; C18 depends on the
\* list being replaced
ApplyTransactions_Concat(cur, d) ==
  IF d.hasTransactions THEN cur \o d.transactions ELSE cur

\* if (d.transactions) setTransactions(d.transactions)
ApplyTransactions(cur, d) == IF d.hasTransactions THEN d.transactions ELSE cur

\* if (d.transactions) { ...; if (d.budgets) setBudgets(d.budgets) }
ApplyBudgets(cur, d) == IF d.hasTransactions /\ d.hasBudgets THEN d.budgets ELSE cur

\* if (d.transactions) { ...; setLastSync(new Date().toLocaleTimeString()) }
RecordsSync(d) == d.hasTransactions

\* alert shown on the success path: only the settings button has one
SuccessAlert(ctl, d) ==
  IF d.hasTransactions /\ ctl = "settings" THEN "Cloud Sync Successful!" ELSE "none"

\* alert shown by the catch block
FailureAlert(ctl) ==
  IF ctl = "dashboard" THEN "Cloud Sync failed. Your local data is safe." ELSE "Sync failed."

\* finally { setIsSyncing(false) } / the statement after the try: the invocation is over
EndInvocation(p) ==
  /\ isSyncing' = [isSyncing EXCEPT ![p] = FALSE]
  /\ pc' = [pc EXCEPT ![p] = "Idle"]
  /\ how' = [how EXCEPT ![p] = "none"]
  /\ caught' = [caught EXCEPT ![p] = ""]
  /\ alert' = [alert EXCEPT ![p] = "none"]

\* the handler stops inside alert(text) until the user dismisses it
ShowAlert(p, text, outcome, err) ==
  /\ pc' = [pc EXCEPT ![p] = "Alerting"]
  /\ how' = [how EXCEPT ![p] = outcome]
  /\ caught' = [caught EXCEPT ![p] = err]
  /\ alert' = [alert EXCEPT ![p] = text]
  /\ UNCHANGED isSyncing

\* the round trip and the closure are gone once performSync has settled
DropRequest(p) ==
  /\ sent' = [sent EXCEPT ![p] = NoPayload]
  /\ stage' = [stage EXCEPT ![p] = "none"]
  /\ resp' = [resp EXCEPT ![p] = NoResponse]

\* try-body after performSync returned d
Finish(p, d, outcome) ==
  LET c == ClientOf(p)
      text == SuccessAlert(ControlOf(p), d) IN
  /\ transactions' = [transactions EXCEPT ![c] = ApplyTransactions(@, d)]
  /\ budgets' = [budgets EXCEPT ![c] = ApplyBudgets(@, d)]
  /\ lastSync' = [lastSync EXCEPT ![c] = IF RecordsSync(d) THEN "time" ELSE @]
  /\ DropRequest(p)
  /\ IF text # "none" THEN ShowAlert(p, text, outcome, "") ELSE EndInvocation(p)
  /\ UNCHANGED remoteVars

\* catch (err) { alert(...) }
Catch(p, err) ==
  /\ DropRequest(p)
  /\ ShowAlert(p, FailureAlert(ControlOf(p)), "threw", err)
  /\ UNCHANGED <<clientVars, remoteVars>>

\* the awaited fetch settles: performSync throws, opens the confirm dialog, or returns data
ReceiveResponse(p) ==
  LET c == ClientOf(p)
      r == resp[p] IN
  /\ pc[p] = "Requesting"
  /\ stage[p] = "resp"
  /\ ~DialogOpen(c)
  /\ IF ThrownError(r) # ""
     THEN Catch(p, ThrownError(r))
     ELSE IF GuardFires(sent[p].transactions, r)
     THEN /\ pc' = [pc EXCEPT ![p] = "Blocked"]
          /\ UNCHANGED <<clientVars, isSyncing, sent, stage, resp, how, caught, alert, remoteVars>>
     ELSE Finish(p, r, "returnedData")

\* the user answers the confirm dialog; Cancel keeps local, OK returns the body
AnswerConfirm(p, confirmWipe) ==
  /\ pc[p] = "Blocked"
  /\ IF confirmWipe
     THEN Finish(p, resp[p], "returnedData")
     ELSE Finish(p, KeepLocal(sent[p]), "keptLocal")

\* the user dismisses the alert; the handler runs to its end
DismissAlert(p) ==
  /\ pc[p] = "Alerting"
  /\ EndInvocation(p)
  /\ UNCHANGED <<clientVars, sent, stage, resp, remoteVars>>

\* ------------------------------------------------------------ specification
\* Spec: one client, one sync invocation at a time from either of its controls,
\* against an endpoint that is the v4.0 script, a failing transport, or some other
\* JSON-speaking endpoint.
SoloClient == "c1"
SoloProcs == {p \in Procs : ClientOf(p) = SoloClient}
NoneInFlight(c) == \A ctl \in Controls : pc[<<c, ctl>>] = "Idle"

Next ==
  \/ \E t \in TxPool : addTransaction(SoloClient, t)
  \/ \E id \in Ids(transactions[SoloClient]) : deleteTransaction(SoloClient, id)
  \/ handleBudgetChange(SoloClient, "Food", EditedLimit)
  \/ handleClearTransactions(SoloClient)
  \/ \E p \in SoloProcs : NoneInFlight(SoloClient) /\ StartSync(p)
  \/ \E p \in SoloProcs : RemoteDoPost(p)
  \/ \E p \in SoloProcs, kind \in FailureKinds : RequestFails(p, kind)
  \/ \E p \in SoloProcs : ResponseLost(p)
  \/ \E p \in SoloProcs, body \in OtherBodies : RespondOther(p, body)
  \/ \E p \in SoloProcs : ReceiveResponse(p)
  \/ \E p \in SoloProcs, confirmWipe \in BOOLEAN : AnswerConfirm(p, confirmWipe)
  \/ \E p \in SoloProcs : DismissAlert(p)

Spec == Init /\ [][Next]_vars

\* SpecShared: the two clients of README Step 3 sharing one deployed v4.0 script,
\* each syncing from one control and logging its own expense; the transport may fail.
SharedProcs == {<<"c1", "dashboard">>, <<"c2", "settings">>}

NextShared ==
  \/ addTransaction("c1", TxA)
  \/ addTransaction("c2", TxB)
  \/ handleBudgetChange("c1", "Food", EditedLimit)
  \/ \E c \in Clients : \E id \in Ids(transactions[c]) : deleteTransaction(c, id)
  \/ \E c \in Clients : handleClearTransactions(c)
  \/ \E p \in SharedProcs : StartSync(p)
  \/ \E p \in SharedProcs : RemoteDoPost(p)
  \/ \E p \in SharedProcs : RequestFails(p, "throw")
  \/ \E p \in SharedProcs : ResponseLost(p)
  \/ \E p \in SharedProcs : ReceiveResponse(p)
  \/ \E p \in SharedProcs : DismissAlert(p)

SpecShared == Init /\ [][NextShared]_vars

\* SpecOverlap: one client whose two controls both have an invocation in flight
\* (dashboard button pressed, then the settings button) against the v4.0 script.
NextOverlap ==
  \/ \E t \in TxPool : addTransaction(SoloClient, t)
  \/ \E id \in Ids(transactions[SoloClient]) : deleteTransaction(SoloClient, id)
  \/ \E p \in SoloProcs : StartSync(p)
  \/ \E p \in SoloProcs : RemoteDoPost(p)
  \/ \E p \in SoloProcs : ReceiveResponse(p)
  \/ \E p \in SoloProcs : DismissAlert(p)

SpecOverlap == Init /\ [][NextOverlap]_vars

\* ------------------------------------- the first-generation client and script
\* components/Views.tsx SettingsView button with the two-argument performSync
\* (POST, then GET) against the first script (doPost clears and rewrites, doGet reads).
\* doPost: sheet.clear(); header; one row per transaction, whatever the list holds
legacyDoPost(rows, payload) ==
  [i \in 1..Len(payload.transactions) |-> RowOf(payload.transactions[i])]

\* doGet: { transactions: [...] } read from the sheet; no status, no budgets
legacyDoGet(rows) ==
  JsonResponse("script", "", "", TRUE, ReadTransactions(rows), FALSE, EmptyBudgets)

\* onClick up to the first await: setIsSyncing(true); performSync(syncUrl, transactions)
LegacyStartSync(p) ==
  LET c == ClientOf(p) IN
  /\ ~DialogOpen(c)
  /\ pc[p] = "Idle"
  /\ isSyncing' = [isSyncing EXCEPT ![p] = TRUE]
  /\ pc' = [pc EXCEPT ![p] = "Requesting"]
  /\ sent' = [sent EXCEPT ![p] = [transactions |-> transactions[c], budgets |-> EmptyBudgets]]
  /\ stage' = [stage EXCEPT ![p] = "req"]
  /\ UNCHANGED <<clientVars, resp, how, caught, alert, remoteVars>>

\* the script handles the POST; performSync goes on to `await fetch(url)`
LegacyRemoteDoPost(p) ==
  /\ stage[p] = "req"
  /\ sheetTx' = legacyDoPost(sheetTx, sent[p])
  /\ lastPush' = IF Len(sent[p].transactions) > 0 THEN sent[p].transactions ELSE lastPush
  /\ stage' = [stage EXCEPT ![p] = "posted"]
  /\ UNCHANGED <<clientVars, isSyncing, pc, sent, resp, how, caught, alert, sheetBudgets>>

\* the script handles the GET
LegacyRemoteDoGet(p) ==
  /\ stage[p] = "posted"
  /\ resp' = [resp EXCEPT ![p] = legacyDoGet(sheetTx)]
  /\ stage' = [stage EXCEPT ![p] = "resp"]
  /\ UNCHANGED <<clientVars, isSyncing, pc, sent, how, caught, alert, remoteVars>>

\* either fetch rejects
LegacyFetchFails(p) ==
  /\ stage[p] \in {"req", "posted"}
  /\ resp' = [resp EXCEPT ![p] = FailedResponse("throw")]
  /\ stage' = [stage EXCEPT ![p] = "resp"]
  /\ UNCHANGED <<clientVars, isSyncing, pc, sent, how, caught, alert, remoteVars>>

\* the rest of onClick: no try/catch, so a rejected performSync ends the handler
\* before setTransactions, setLastSync and setIsSyncing(false)
LegacyReceiveResponse(p) ==
  LET c == ClientOf(p)
      r == resp[p] IN
  /\ pc[p] = "Requesting"
  /\ stage[p] = "resp"
  /\ DropRequest(p)
  /\ pc' = [pc EXCEPT ![p] = "Idle"]
  /\ IF r.kind = "json"
     THEN /\ transactions' = [transactions EXCEPT ![c] = r.transactions]
          /\ lastSync' = [lastSync EXCEPT ![c] = "time"]
          /\ isSyncing' = [isSyncing EXCEPT ![p] = FALSE]
     ELSE UNCHANGED <<transactions, lastSync, isSyncing>>
  /\ UNCHANGED <<budgets, how, caught, alert, remoteVars>>

LegacyProc == <<SoloClient, "settings">>

NextLegacy ==
  \/ \E t \in TxPool : addTransaction(SoloClient, t)
  \/ \E id \in Ids(transactions[SoloClient]) : deleteTransaction(SoloClient, id)
  \/ LegacyStartSync(LegacyProc)
  \/ LegacyRemoteDoPost(LegacyProc)
  \/ LegacyRemoteDoGet(LegacyProc)
  \/ LegacyFetchFails(LegacyProc)
  \/ LegacyReceiveResponse(LegacyProc)

SpecLegacy == Init /\ [][NextLegacy]_vars

\* --------------------------------------------------- creating transactions
\* amounts are in a unit small enough that the halving of handleSettleUp is exact
\* for the lists this model builds (every entered amount is a multiple of 8)
RECURSIVE SumAmounts(_)
SumAmounts(splits) ==
  IF splits = <<>> THEN 0 ELSE Head(splits).amount + SumAmounts(Tail(splits))

\* ids generateId() hands out; never one the list already holds (addTransaction)
IdPool == {"a", "b"}

\* what the user can have typed into the split rows when pressing Save
FormSplits ==
  { <<[categoryName |-> "Food", amount |-> 0]>>,
    <<[categoryName |-> "Food", amount |-> 1600], [categoryName |-> "Gas", amount |-> -800]>> }

\* TransactionList.handleSubmit (part_003, components/Views.tsx): total over all rows,
\* rejected with an alert when not positive, every row kept
handleSubmit(c, id, user, newSplits) ==
  LET totalAmount == SumAmounts(newSplits) IN
  /\ totalAmount > 0
  /\ addTransaction(c, [id |-> id, userId |-> user, totalAmount |-> totalAmount,
                        splits |-> newSplits])

\* TransactionList.handleManualAdd (App.tsx): total over all rows, rejected when not
\* positive, only the rows with a positive amount kept
handleManualAdd(c, id, user, newSplits) ==
  LET totalAmount == SumAmounts(newSplits) IN
  /\ totalAmount > 0
  /\ addTransaction(c, [id |-> id, userId |-> user, totalAmount |-> totalAmount,
                        splits |-> SelectSeq(newSplits, LAMBDA sp : sp.amount > 0)])

\* what parseReceipt can resolve to: the model's JSON, amount being any number
Receipts ==
  {[amount |-> a, categoryName |-> "Food"] : a \in {1600, 0}}

\* TransactionList.handleFileUpload: if (parsed) onAdd({... parsed.amount ...})
handleFileUpload(c, id, user, parsed) ==
  addTransaction(c, [id |-> id, userId |-> user, totalAmount |-> parsed.amount,
                     splits |-> <<[categoryName |-> parsed.categoryName,
                                   amount |-> parsed.amount]>>])

\* transactions.reduce((acc, curr) => curr.userId === user ? acc + curr.totalAmount : acc, 0)
RECURSIVE PaidBy(_, _)
PaidBy(txs, user) ==
  IF txs = <<>> THEN 0
  ELSE (IF Head(txs).userId = user THEN Head(txs).totalAmount ELSE 0) + PaidBy(Tail(txs), user)

Abs(n) == IF n < 0 THEN -n ELSE n

\* variant whose balancing log is paid by the partner who paid more; C21 depends
\* on the payer
handleSettleUp_PaidByOwed(c, id) ==
  LET p1Total == PaidBy(transactions[c], "PARTNER_1")
      p2Total == PaidBy(transactions[c], "PARTNER_2")
      diff == p1Total - p2Total
      settleAmt == Abs(diff) \div 2 IN
  addTransaction(c, [id |-> id,
                     userId |-> IF diff > 0 THEN "PARTNER_1" ELSE "PARTNER_2",
                     totalAmount |-> settleAmt,
                     splits |-> <<[categoryName |-> "One time things", amount |-> settleAmt]>>])

\* App.handleSettleUp, confirmed: a balancing log of half the difference
handleSettleUp(c, id) ==
  LET p1Total == PaidBy(transactions[c], "PARTNER_1")
      p2Total == PaidBy(transactions[c], "PARTNER_2")
      diff == p1Total - p2Total
      settleAmt == Abs(diff) \div 2 IN
  addTransaction(c, [id |-> id,
                     userId |-> IF diff > 0 THEN "PARTNER_2" ELSE "PARTNER_1",
                     totalAmount |-> settleAmt,
                     splits |-> <<[categoryName |-> "One time things", amount |-> settleAmt]>>])

\* a Transactions sheet last written by the category-column script
\* (appendRow([t.id, ..., t.totalAmount, t.splits[0]?.categoryName || 'Other'])):
\* its sixth cell is a category name, which JSON.parse rejects
OldSheet ==
  <<[id |-> "o", userId |-> "PARTNER_1", totalAmount |-> 2400,
     splitsJSON |-> [parses |-> FALSE, value |-> <<>>]]>>

\* SpecLedger: one client creating transactions through every form and, between
\* edits, syncing from the dashboard against the v4.0 script, whose spreadsheet is
\* new or holds a row of old data.
InitLedger ==
  /\ transactions = [c \in Clients |-> <<>>]
  /\ budgets = [c \in Clients |-> DefaultBudgets]
  /\ lastSync = [c \in Clients |-> "Never"]
  /\ isSyncing = [p \in Procs |-> FALSE]
  /\ pc = [p \in Procs |-> "Idle"]
  /\ sent = [p \in Procs |-> NoPayload]
  /\ stage = [p \in Procs |-> "none"]
  /\ resp = [p \in Procs |-> NoResponse]
  /\ how = [p \in Procs |-> "none"]
  /\ caught = [p \in Procs |-> ""]
  /\ alert = [p \in Procs |-> "none"]
  /\ sheetTx \in {<<>>, OldSheet}
  /\ sheetBudgets = <<>>
  /\ lastPush = <<>>

LedgerProc == <<SoloClient, "dashboard">>

\* the list holds no balancing log yet: the balance is cleared once per list, which
\* keeps the halved amounts whole
NotSettled(c) ==
  \A i \in 1..Len(transactions[c]) :
    \A k \in 1..Len(transactions[c][i].splits) :
      transactions[c][i].splits[k].categoryName # "One time things"

NextLedger ==
  \/ \E id \in IdPool, newSplits \in FormSplits :
       NoneInFlight(SoloClient) /\ handleSubmit(SoloClient, id, "PARTNER_1", newSplits)
  \/ \E id \in IdPool, newSplits \in FormSplits :
       NoneInFlight(SoloClient) /\ handleManualAdd(SoloClient, id, "PARTNER_2", newSplits)
  \/ \E id \in IdPool, parsed \in Receipts :
       NoneInFlight(SoloClient) /\ handleFileUpload(SoloClient, id, "PARTNER_1", parsed)
  \/ \E id \in IdPool :
       NoneInFlight(SoloClient) /\ NotSettled(SoloClient) /\ handleSettleUp(SoloClient, id)
  \/ \E id \in Ids(transactions[SoloClient]) :
       NoneInFlight(SoloClient) /\ deleteTransaction(SoloClient, id)
  \/ StartSync(LedgerProc)
  \/ RemoteDoPost(LedgerProc)
  \/ ReceiveResponse(LedgerProc)

SpecLedger == InitLedger /\ [][NextLedger]_vars

\* ---------------------------------------------------- settlement (Dashboard)
\* Amounts of this section are in cents.

\* settlementAmount.toFixed(2), for an amount given in half cents, as the set of
\* cents it can print: a whole number of cents prints as it is; an amount ending
\* in half a cent prints as one of its two neighbours, by the side on which the
\* binary double nearest to the amount lies (0.005 prints 0.01, 1.005 prints 1.00)
toFixed2(halfCents) ==
  IF halfCents % 2 = 0 THEN {halfCents \div 2}
  ELSE {halfCents \div 2, halfCents \div 2 + 1}

Balanced == [kind |-> "balanced", who |-> "nobody", cents |-> 0]

\* variant that names the partner who paid more; C19 depends on the direction
settlementMsg_Swapped(txs) ==
  LET p1Total == PaidBy(txs, "PARTNER_1")
      p2Total == PaidBy(txs, "PARTNER_2")
      diff == p1Total - p2Total IN
  IF diff = 0 THEN {Balanced}
  ELSE {[kind |-> "owes", who |-> IF diff > 0 THEN "PARTNER_1" ELSE "PARTNER_2", cents |-> a] :
          a \in toFixed2(Abs(diff))}

\* const diff = p1Total - p2Total; const settlementAmount = Math.abs(diff) / 2;
\* settlementMsg = diff === 0 ? "Perfectly Balanced" : isP1Owed ? `${P2} owes $..` : `${P1} owes $..`
\* (Math.abs(diff) cents are Math.abs(diff) half cents of settlementAmount)
settlementMsg(txs) ==
  LET p1Total == PaidBy(txs, "PARTNER_1")
      p2Total == PaidBy(txs, "PARTNER_2")
      diff == p1Total - p2Total IN
  IF diff = 0 THEN {Balanced}
  ELSE {[kind |-> "owes", who |-> IF diff > 0 THEN "PARTNER_2" ELSE "PARTNER_1", cents |-> a] :
          a \in toFixed2(Abs(diff))}

\* ---- the 45% figure (Dashboard v4.5 and the summary sheet)
\* Every transaction of the list is taken to be dated in the current month; the
\* figures are in hundredths of the unit of the amounts (0.45 is 45 of them).

RECURSIVE totalCombined(_)
\* totalCombined += t.totalAmount
totalCombined(txs) ==
  IF txs = <<>> THEN 0 ELSE Head(txs).totalAmount + totalCombined(Tail(txs))

\* const tracyOwesThisMonth = (totalCombined - tracyPaidThisMonth) * 0.45
tracyOwesThisMonth(txs) ==
  (totalCombined(txs) - PaidBy(txs, "PARTNER_1")) * 45

RECURSIVE monthTotal(_)
\* GRAND TOTAL of the month: the sum over the categories of yearMap[year][cat][m],
\* to which every split of the month was added
monthTotal(txs) ==
  IF txs = <<>> THEN 0 ELSE SumAmounts(Head(txs).splits) + monthTotal(Tail(txs))

\* tracyOwesRow.push((monthTotal - tracyPaid) * 0.45)
tracyOwesRow(txs) ==
  (monthTotal(txs) - PaidBy(txs, "PARTNER_1")) * 45

\* amounts typed into the add form: $300.00, $100.00, $0.01, $0.02
EquityForms ==
  { <<[categoryName |-> "Food", amount |-> 30000]>>,
    <<[categoryName |-> "Food", amount |-> 10000]>>,
    <<[categoryName |-> "Food", amount |-> 1]>>,
    <<[categoryName |-> "Food", amount |-> 2]>> }

NextEquity ==
  \/ \E id \in IdPool, user \in Partners, newSplits \in EquityForms :
       handleSubmit(SoloClient, id, user, newSplits)
  \/ \E id \in Ids(transactions[SoloClient]) : deleteTransaction(SoloClient, id)

SpecEquity == Init /\ [][NextEquity]_vars

\* ------------------------------------------- monthly totals and Budget Health
\* An instant (t.date, new Date()) by its UTC year and month (0-11), and whether it
\* lies in the first hours of that month, as the midnight of a date typed on the
\* first day does (new Date(newDate).toISOString()).
Dates ==
  { [year |-> 2025, month |-> 0, early |-> TRUE],
    [year |-> 2025, month |-> 0, early |-> FALSE],
    [year |-> 2024, month |-> 0, early |-> FALSE],
    [year |-> 2024, month |-> 11, early |-> FALSE] }

\* the browser's time zone: UTC, or one west of it
Zones == {"UTC", "west"}

\* Date.getMonth() and Date.getFullYear(): west of UTC the first hours of a UTC
\* month are the last evening of the previous month. getUTCMonth() and
\* getUTCFullYear() of the v4.5 Dashboard are these with zone "UTC".
getMonth(d, zone) ==
  IF zone = "west" /\ d.early THEN (d.month + 11) % 12 ELSE d.month

getFullYear(d, zone) ==
  IF zone = "west" /\ d.early /\ d.month = 0 THEN d.year - 1 ELSE d.year

\* variant that compares the month and not the year; C23 depends on both
InCurrentMonth_MonthOnly(t, now, zone) ==
  getMonth(t.date, zone) = getMonth(now, zone)

\* d.getMonth() === currentMonth && d.getFullYear() === currentYear
InCurrentMonth(t, now, zone) ==
  /\ getMonth(t.date, zone) = getMonth(now, zone)
  /\ getFullYear(t.date, zone) = getFullYear(now, zone)

RECURSIVE addSplits_Unchecked(_, _)
\* variant without the `!== undefined` test, which gives a split of a category that
\* is not registered an entry of its own; C26 depends on the test
addSplits_Unchecked(totals, splits) ==
  IF splits = <<>> THEN totals
  ELSE LET split == Head(splits) IN
       addSplits_Unchecked(IF split.categoryName \in DOMAIN totals
                             THEN [totals EXCEPT ![split.categoryName] = @ + split.amount]
                             ELSE (split.categoryName :> split.amount) @@ totals,
                           Tail(splits))

RECURSIVE addSplits(_, _)
\* for (const split of t.splits)
\*   if (totals[split.categoryName] !== undefined) totals[split.categoryName] += split.amount
addSplits(totals, splits) ==
  IF splits = <<>> THEN totals
  ELSE LET split == Head(splits) IN
       addSplits(IF split.categoryName \in DOMAIN totals
                   THEN [totals EXCEPT ![split.categoryName] = @ + split.amount]
                   ELSE totals,
                 Tail(splits))

RECURSIVE monthlyLoop(_, _, _, _)
\* for (const t of transactions) { p1 or p2 += t.totalAmount; if (in the current
\* month) { totalCombined += t.totalAmount; add the splits to totals } }
monthlyLoop(acc, txs, now, zone) ==
  IF txs = <<>> THEN acc
  ELSE LET t == Head(txs)
           inMonth == InCurrentMonth(t, now, zone) IN
       monthlyLoop(
         [totals |-> IF inMonth THEN addSplits(acc.totals, t.splits) ELSE acc.totals,
          totalCombined |-> IF inMonth THEN acc.totalCombined + t.totalAmount ELSE acc.totalCombined,
          p1 |-> IF t.userId = "PARTNER_1" THEN acc.p1 + t.totalAmount ELSE acc.p1,
          p2 |-> IF t.userId = "PARTNER_1" THEN acc.p2 ELSE acc.p2 + t.totalAmount],
         Tail(txs), now, zone)

\* Dashboard.monthlyTotals: categories.forEach(c => totals[c.name] = 0), then the loop
monthlyTotals(txs, now, zone) ==
  monthlyLoop([totals |-> [cat \in CategorySet |-> 0], totalCombined |-> 0, p1 |-> 0, p2 |-> 0],
              txs, now, zone)

\* const diff = monthlyTotals.p1 - monthlyTotals.p2, and the message made of it
monthlySettlement(txs, now, zone) ==
  LET m == monthlyTotals(txs, now, zone)
      diff == m.p1 - m.p2 IN
  IF diff = 0 THEN {Balanced}
  ELSE {[kind |-> "owes", who |-> IF diff > 0 THEN "PARTNER_2" ELSE "PARTNER_1", cents |-> a] :
          a \in toFixed2(Abs(diff))}

\* const budget = budgets[cat.name] || 0
budgetOf(b, cat) == IF b[cat] = NoLimit THEN 0 ELSE b[cat]

\* Budget Health of App.tsx: const isOver = spent > budget && budget > 0
isOver(spent, budget) == spent > budget /\ budget > 0

\* Budget Health of the v4.5 Dashboard: color={spent > budget ? '#f43f5e' : cat.color}
isOverV45(spent, budget) == spent > budget

\* transactions as the add form and the receipt scan hand them to onAdd, with their
\* date; the receipt's category is the text the model returned ("Groceries" is not
\* a registered category). Amounts are in the unit of the budget limits.
DatedPool ==
  { [id |-> id, userId |-> user, date |-> d, totalAmount |-> SumAmounts(sp), splits |-> sp] :
      id \in IdPool, user \in Partners, d \in Dates,
      sp \in { <<[categoryName |-> "Food", amount |-> 120]>>,
               <<[categoryName |-> "Food", amount |-> 30], [categoryName |-> "Gas", amount |-> 60]>>,
               <<[categoryName |-> "Groceries", amount |-> 40]>> } }

\* SpecBudget: one client adding dated transactions, deleting them and editing the
\* Food limit; its budgets start as the defaults or as the empty map adopted from a
\* new spreadsheet.
InitBudget ==
  /\ transactions = [c \in Clients |-> <<>>]
  /\ budgets \in {[c \in Clients |-> DefaultBudgets], [c \in Clients |-> EmptyBudgets]}
  /\ lastSync = [c \in Clients |-> "Never"]
  /\ isSyncing = [p \in Procs |-> FALSE]
  /\ pc = [p \in Procs |-> "Idle"]
  /\ sent = [p \in Procs |-> NoPayload]
  /\ stage = [p \in Procs |-> "none"]
  /\ resp = [p \in Procs |-> NoResponse]
  /\ how = [p \in Procs |-> "none"]
  /\ caught = [p \in Procs |-> ""]
  /\ alert = [p \in Procs |-> "none"]
  /\ sheetTx = <<>>
  /\ sheetBudgets = <<>>
  /\ lastPush = <<>>

NextBudget ==
  \/ \E t \in DatedPool : addTransaction(SoloClient, t)
  \/ \E id \in Ids(transactions[SoloClient]) : deleteTransaction(SoloClient, id)
  \/ \E amount \in {0, EditedLimit} : handleBudgetChange(SoloClient, "Food", amount)

SpecBudget == InitBudget /\ [][NextBudget]_vars

\* ------------------------------------------------ two clients, no more edits
\* SpecStale: the two clients of README Step 3 after their last local edit: each
\* holds nothing or the one expense it logged, edits have stopped, and each keeps
\* pressing its sync button against the shared v4.0 script; no request fails.
InitStale ==
  /\ transactions \in { [c \in Clients |-> IF c = "c1" THEN x ELSE y] :
                          x \in {<<>>, <<TxA>>}, y \in {<<>>, <<TxB>>} }
  /\ budgets = [c \in Clients |-> DefaultBudgets]
  /\ lastSync = [c \in Clients |-> "Never"]
  /\ isSyncing = [p \in Procs |-> FALSE]
  /\ pc = [p \in Procs |-> "Idle"]
  /\ sent = [p \in Procs |-> NoPayload]
  /\ stage = [p \in Procs |-> "none"]
  /\ resp = [p \in Procs |-> NoResponse]
  /\ how = [p \in Procs |-> "none"]
  /\ caught = [p \in Procs |-> ""]
  /\ alert = [p \in Procs |-> "none"]
  /\ sheetTx = <<>>
  /\ sheetBudgets = <<>>
  /\ lastPush = <<>>

NextStale ==
  \/ \E p \in SharedProcs : StartSync(p)
  \/ \E p \in SharedProcs : RemoteDoPost(p)
  \/ \E p \in SharedProcs : ReceiveResponse(p)
  \/ \E p \in SharedProcs : DismissAlert(p)

\* every request is answered and every answer handled, and each user presses the
\* sync button again and again
SpecStale ==
  /\ InitStale /\ [][NextStale]_vars
  /\ \A p \in SharedProcs :
       /\ WF_vars(StartSync(p)) /\ WF_vars(RemoteDoPost(p))
       /\ WF_vars(ReceiveResponse(p)) /\ WF_vars(DismissAlert(p))

\* ------------------------------------------------- a sheet edited by hand
\* a Transactions sheet in which somebody typed a name into the User column
EditedSheet ==
  <<[id |-> "e", userId |-> "Tracy", totalAmount |-> 2400,
     splitsJSON |-> StringifySplits(<<[categoryName |-> "Food", amount |-> 2400]>>)]>>

\* SpecEdited: one client logging and deleting expenses and syncing from the
\* dashboard against the v4.0 script, whose spreadsheet is new or was edited by hand.
InitEdited ==
  /\ transactions = [c \in Clients |-> <<>>]
  /\ budgets = [c \in Clients |-> DefaultBudgets]
  /\ lastSync = [c \in Clients |-> "Never"]
  /\ isSyncing = [p \in Procs |-> FALSE]
  /\ pc = [p \in Procs |-> "Idle"]
  /\ sent = [p \in Procs |-> NoPayload]
  /\ stage = [p \in Procs |-> "none"]
  /\ resp = [p \in Procs |-> NoResponse]
  /\ how = [p \in Procs |-> "none"]
  /\ caught = [p \in Procs |-> ""]
  /\ alert = [p \in Procs |-> "none"]
  /\ sheetTx \in {<<>>, EditedSheet}
  /\ sheetBudgets = <<>>
  /\ lastPush = <<>>

NextEdited ==
  \/ \E t \in TxPool : addTransaction(SoloClient, t)
  \/ \E id \in Ids(transactions[SoloClient]) : deleteTransaction(SoloClient, id)
  \/ handleBudgetChange(SoloClient, "Food", EditedLimit)
  \/ StartSync(LedgerProc)
  \/ RemoteDoPost(LedgerProc)
  \/ ReceiveResponse(LedgerProc)
  \/ DismissAlert(LedgerProc)

SpecEdited == InitEdited /\ [][NextEdited]_vars

\* ------------------------------------------------------------------ claims
\* the step in which the awaited fetch of p settles (performSync resumes)
Settles(p) == pc[p] = "Requesting" /\ stage[p] = "resp" /\ pc'[p] # "Requesting"

\* the step in which performSync of p is over and the handler has used its result
Ends(p) == pc[p] \in {"Requesting", "Blocked"} /\ pc'[p] \in {"Idle", "Alerting"}

LocalKept(c) == transactions'[c] = transactions[c] /\ budgets'[c] = budgets[c]

\* a parsed body that does not report an error
IsData(r) == r.kind = "json" /\ r.status # "error"

\* a body with no transactions in it: the list is empty or the field is missing
ZeroTransactions(r) == ~r.hasTransactions \/ r.transactions = <<>>

\* C1: when the request throws or answers with a non-OK status, performSync throws
\* and the handler's catch runs; local transactions, budgets and lastSync stay as
\* they are.
C1_TransportFailureKeepsLocal ==
  [][\A p \in Procs :
       (Settles(p) /\ resp[p].kind \in {"throw", "http"})
         => /\ pc'[p] = "Alerting"
            /\ how'[p] = "threw"
            /\ caught'[p] # ""
            /\ alert'[p] \in {"Cloud Sync failed. Your local data is safe.", "Sync failed."}
            /\ LocalKept(ClientOf(p))
            /\ lastSync'[ClientOf(p)] = lastSync[ClientOf(p)]]_vars

\* a non-OK status was caught while the client holds transactions
C1_Witness ==
  \E p \in Procs :
    /\ pc[p] = "Alerting"
    /\ how[p] = "threw"
    /\ caught[p] = "Cloud sync failed"
    /\ transactions[ClientOf(p)] # <<>>

\* C2: a sync started with local transactions whose response carries none stops at
\* the confirm dialog without touching local data, and when the user cancels, the
\* local transactions and budgets are those the sync started with.
C2_GuardKeepsLocalUnlessConfirmed ==
  [][\A p \in Procs :
       /\ (Settles(p) /\ IsData(resp[p]) /\ sent[p].transactions # <<>>
             /\ ZeroTransactions(resp[p]))
            => (pc'[p] = "Blocked" /\ LocalKept(ClientOf(p)))
       /\ AnswerConfirm(p, FALSE)
            => /\ transactions'[ClientOf(p)] = sent[p].transactions
               /\ budgets'[ClientOf(p)] = sent[p].budgets]_vars

\* the user cancelled the wipe and the client still holds its transactions
C2_Witness ==
  \E p \in Procs :
    /\ pc[p] = "Alerting"
    /\ how[p] = "keptLocal"
    /\ transactions[ClientOf(p)] # <<>>

\* C3 (as claimed): an invocation ends with transactions and budgets both replaced
\* by the response's, or with both as they were (now, or when the sync started).
C3_NoPartialApplication ==
  [][\A p \in Procs :
       Ends(p) =>
         LET c == ClientOf(p) IN
         \/ /\ resp[p].hasTransactions /\ resp[p].hasBudgets
            /\ transactions'[c] = resp[p].transactions
            /\ budgets'[c] = resp[p].budgets
         \/ LocalKept(c)
         \/ /\ transactions'[c] = sent[p].transactions
            /\ budgets'[c] = sent[p].budgets]_vars

\* C4: a body with status "error" makes performSync throw an Error whose message is
\* the body's message (the fixed text when the body has none); the catch runs and
\* local transactions, budgets and lastSync stay as they are.
C4_RemoteErrorKeepsLocal ==
  [][\A p \in Procs :
       (Settles(p) /\ resp[p].kind = "json" /\ resp[p].status = "error")
         => /\ pc'[p] = "Alerting"
            /\ how'[p] = "threw"
            /\ caught'[p] = (IF resp[p].message # "" THEN resp[p].message
                             ELSE "Server error during sync")
            /\ alert'[p] \in {"Cloud Sync failed. Your local data is safe.", "Sync failed."}
            /\ LocalKept(ClientOf(p))
            /\ lastSync'[ClientOf(p)] = lastSync[ClientOf(p)]]_vars

\* the remote's message was caught while the client holds transactions
C4_Witness ==
  \E p \in Procs :
    /\ pc[p] = "Alerting"
    /\ how[p] = "threw"
    /\ caught[p] = "boom"
    /\ transactions[ClientOf(p)] # <<>>

\* C5 (as claimed): a body that does not parse, or parses without a transactions
\* field, ends the invocation like a transport failure: the catch runs, no confirm
\* dialog opens, local data stays.
C5_MalformedIsFailure ==
  [][\A p \in Procs :
       (Settles(p) /\ (resp[p].kind = "unparsable"
                        \/ (IsData(resp[p]) /\ ~resp[p].hasTransactions)))
         => /\ pc'[p] = "Alerting"
            /\ how'[p] = "threw"
            /\ LocalKept(ClientOf(p))]_vars

\* C6 (as claimed): when the user cancels the wipe, the handler shows no success
\* message and does not set lastSync.
C6_SkippedIsNotSuccess ==
  [][\A p \in Procs :
       AnswerConfirm(p, FALSE)
         => /\ alert'[p] # "Cloud Sync Successful!"
            /\ lastSync'[ClientOf(p)] = lastSync[ClientOf(p)]]_vars

\* the Transactions sheet holds exactly the list txs, row for row
Stores(rows, txs) ==
  /\ Len(rows) = Len(txs)
  /\ \A i \in 1..Len(rows) :
       /\ rows[i].id = txs[i].id
       /\ rows[i].userId = txs[i].userId
       /\ rows[i].totalAmount = txs[i].totalAmount
       /\ rows[i].splitsJSON.parses
       /\ rows[i].splitsJSON.value = txs[i].splits

\* the Budgets sheet holds exactly the map b, one row per key
StoresBudgets(rows, b) ==
  /\ \A cat \in CategorySet :
       (b[cat] # NoLimit) <=> (\E i \in 1..Len(rows) : rows[i].category = cat)
  /\ \A i \in 1..Len(rows) : rows[i].limit = b[rows[i].category]

\* the step in which the script handles the request of p
Handled(p) == stage[p] = "req" /\ stage'[p] = "resp" /\ resp'[p].by = "script"

\* C7: the v4.0 script leaves the Transactions sheet alone when the request's list
\* is empty and the Budgets sheet alone when the request's map has no key, and its
\* response still carries everything the two sheets hold.
C7_EmptyPayloadWritesNothing ==
  [][\A p \in Procs :
       Handled(p) =>
         /\ sent[p].transactions = <<>> => (sheetTx' = sheetTx /\ resp'[p].status = "success")
         /\ BudgetKeys(sent[p].budgets) = {} => sheetBudgets' = sheetBudgets
         /\ ((sent[p].transactions = <<>> \/ BudgetKeys(sent[p].budgets) = {})
              /\ resp'[p].status = "success")
            => /\ resp'[p].hasTransactions /\ resp'[p].hasBudgets
               /\ Stores(sheetTx', resp'[p].transactions)
               /\ StoresBudgets(sheetBudgets', resp'[p].budgets)]_vars

\* a request with no transaction and no budget was answered with the stored ones
C7_Witness ==
  \E p \in Procs :
    /\ stage[p] = "resp" /\ resp[p].by = "script"
    /\ sent[p].transactions = <<>> /\ BudgetKeys(sent[p].budgets) = {}
    /\ sheetTx # <<>> /\ sheetBudgets # <<>>
    /\ resp[p].transactions # <<>> /\ BudgetKeys(resp[p].budgets) # {}

C10_SuccessEqualsRemote ==
  [][\A p \in Procs :
       (Settles(p) /\ resp[p].by = "script" /\ resp[p].status = "success"
          /\ pc'[p] # "Blocked")
         => /\ Stores(sheetTx', transactions'[ClientOf(p)])
            /\ StoresBudgets(sheetBudgets', budgets'[ClientOf(p)])]_vars

\* C11 (as claimed): a sync destroys nothing silently.  When the script handles a
\* request, every transaction the sheet held is still on the sheet, or in the list
\* the client sent, or in the body it gets back; when the handler ends without the
\* user having confirmed a wipe, every transaction it sent and still holds is in the
\* local list or on the sheet.
C11_NoSilentDestruction ==
  [][\A p \in Procs :
       /\ Handled(p)
            => Ids(ReadTransactions(sheetTx))
                 \subseteq (Ids(ReadTransactions(sheetTx')) \cup Ids(sent[p].transactions)
                              \cup Ids(resp'[p].transactions))
       /\ (Ends(p) /\ ~AnswerConfirm(p, TRUE))
            => (Ids(sent[p].transactions) \cap Ids(transactions[ClientOf(p)]))
                 \subseteq (Ids(transactions'[ClientOf(p)]) \cup Ids(ReadTransactions(sheetTx')))]_vars

\* C12 (as claimed): a client never has more than one sync request outstanding,
\* whichever of its two controls started it.
C12_SingleFlight ==
  \A c \in Clients :
    Cardinality({p \in Procs : ClientOf(p) = c /\ stage[p] # "none"}) <= 1

\* C13 (as claimed), the part about the busy flag: once an invocation has ended,
\* its control's isSyncing is cleared, also when the request threw.
C13_BusyFlagCleared ==
  \A p \in Procs : pc[p] = "Idle" => ~isSyncing[p]

\* C14 (as claimed): while a sync request of a client is out, none of its local
\* edits takes effect, and the step that applies the result replaces exactly the
\* transactions and budgets that were sent.
C14_EditsSerializedWithSync ==
  [][\A p \in Procs :
       LET c == ClientOf(p) IN
       /\ (pc[p] = "Requesting" /\ pc'[p] = "Requesting") => LocalKept(c)
       /\ (Ends(p) /\ ~LocalKept(c))
            => /\ transactions[c] = sent[p].transactions
               /\ budgets[c] = sent[p].budgets]_vars

C16_SplitsNeverEmpty ==
  \A c \in Clients : \A i \in 1..Len(transactions[c]) :
    transactions[c][i].splits # <<>>

\* the list holds a row of old data adopted with the fallback split, next to a
\* transaction of handleManualAdd that lost a row to the filter
C16_Witness ==
  \E c \in Clients : \E i, j \in 1..Len(transactions[c]) :
    /\ transactions[c][i].id = "o"
    /\ transactions[c][i].splits = <<[categoryName |-> "Other", amount |-> 2400]>>
    /\ transactions[c][j].userId = "PARTNER_2"
    /\ transactions[c][j].splits = <<[categoryName |-> "Food", amount |-> 1600]>>

\* C17 (as claimed): no transaction with a total of zero or less is ever in a
\* client's list.
C17_TotalsPositive ==
  \A c \in Clients : \A i \in 1..Len(transactions[c]) :
    transactions[c][i].totalAmount > 0

\* C18: with generateId never repeating an id of the list, no client ever holds two
\* transactions with one id, and the body the script answers to a push lists the
\* pushed transactions with the ids they were pushed with.
C18_IdsUniqueAndStable ==
  /\ [](\A c \in Clients : Cardinality(Ids(transactions[c])) = Len(transactions[c]))
  /\ [][\A p \in Procs :
          (Handled(p) /\ sent[p].transactions # <<>> /\ resp'[p].status = "success")
            => /\ Len(resp'[p].transactions) = Len(sent[p].transactions)
               /\ \A i \in 1..Len(sent[p].transactions) :
                    resp'[p].transactions[i].id = sent[p].transactions[i].id]_vars

\* a list of two transactions was pushed and adopted back
C18_Witness ==
  \E c \in Clients :
    /\ Len(transactions[c]) = 2
    /\ lastSync[c] = "time"
    /\ Len(sheetTx) = 2
    /\ \A i \in 1..2 : sheetTx[i].id = transactions[c][i].id

C20_OwedIsShareMinusPaid ==
  \A c \in Clients :
    LET paidA == PaidBy(transactions[c], "PARTNER_1")
        paidB == PaidBy(transactions[c], "PARTNER_2")
        owed == (paidA + paidB) * 45 - paidA * 100 IN
    /\ tracyOwesThisMonth(transactions[c]) = owed
    /\ tracyOwesRow(transactions[c]) = owed

\* the transaction a step appended to the list of client c
Appended(c) == transactions'[c][Len(transactions'[c])]

\* C21 (as claimed): settle-up appends one transaction in the adjustment category,
\* of half the difference of the paid totals, paid by the partner who paid more.
C21_SettleUpPaidByOwed ==
  [][\A c \in Clients : (\E id \in IdPool : handleSettleUp(c, id)) =>
       LET p1 == PaidBy(transactions[c], "PARTNER_1")
           p2 == PaidBy(transactions[c], "PARTNER_2") IN
       /\ transactions'[c] = Append(transactions[c], Appended(c))
       /\ Appended(c).splits = <<[categoryName |-> "One time things", amount |-> Appended(c).totalAmount]>>
       /\ 2 * Appended(c).totalAmount = Abs(p1 - p2)
       /\ p1 # p2 => Appended(c).userId = (IF p1 > p2 THEN "PARTNER_1" ELSE "PARTNER_2")]_vars

\* C21 (amended): settle-up appends one transaction in the adjustment category, of
\* half the difference of the paid totals, paid by the partner who paid less (the
\* partner who owes), and by PARTNER_1 when the totals are equal.
C21_SettleUpPaidByOwing ==
  [][\A c \in Clients : (\E id \in IdPool : handleSettleUp(c, id)) =>
       LET p1 == PaidBy(transactions[c], "PARTNER_1")
           p2 == PaidBy(transactions[c], "PARTNER_2") IN
       /\ transactions'[c] = Append(transactions[c], Appended(c))
       /\ Appended(c).splits = <<[categoryName |-> "One time things", amount |-> Appended(c).totalAmount]>>
       /\ 2 * Appended(c).totalAmount = Abs(p1 - p2)
       /\ Appended(c).userId = (IF p1 > p2 THEN "PARTNER_2" ELSE "PARTNER_1")]_vars

\* PARTNER_1 paid 8.00, PARTNER_2 nothing, and the balance was cleared: the list
\* ends with a log of 4.00 paid by PARTNER_2
C21_Witness ==
  \E c \in Clients :
    /\ Len(transactions[c]) = 2
    /\ transactions[c][1].userId = "PARTNER_1"
    /\ transactions[c][1].totalAmount = 800
    /\ transactions[c][2] = [id |-> transactions[c][2].id, userId |-> "PARTNER_2", totalAmount |-> 400,
                             splits |-> <<[categoryName |-> "One time things", amount |-> 400]>>]

\* C22 (as claimed): when the paid totals differ, the settlement computed over the
\* list right after a settle-up, the balancing log included, is the balanced one.
C22_SettleUpBalances ==
  [][\A c \in Clients :
       ( /\ \E id \in IdPool : handleSettleUp(c, id)
         /\ PaidBy(transactions[c], "PARTNER_1") # PaidBy(transactions[c], "PARTNER_2") )
       => settlementMsg(transactions'[c]) = {Balanced}]_vars

\* the list without its i-th transaction
RemoveAt(txs, i) == SubSeq(txs, 1, i - 1) \o SubSeq(txs, i + 1, Len(txs))

RECURSIVE SplitSum(_, _)
\* the sum of the amounts of the splits that name cat
SplitSum(splits, cat) ==
  IF splits = <<>> THEN 0
  ELSE (IF Head(splits).categoryName = cat THEN Head(splits).amount ELSE 0) + SplitSum(Tail(splits), cat)

RECURSIVE SpentOn(_, _)
\* the sum, over the transactions of a list, of the amounts split to cat
SpentOn(txs, cat) ==
  IF txs = <<>> THEN 0 ELSE SplitSum(Head(txs).splits, cat) + SpentOn(Tail(txs), cat)

\* t is dated in the calendar month of now, by the calendar of the zone
DatedInMonthOf(t, now, zone) ==
  <<getFullYear(t.date, zone), getMonth(t.date, zone)>> = <<getFullYear(now, zone), getMonth(now, zone)>>

\* C23: for every current instant and zone, the combined monthly total and every
\* category's spent total are the sums over the transactions dated in the current
\* month alone, and taking a transaction dated in another month (or the same month
\* of another year) out of the list changes none of them.
C23_OutOfWindowCountsZero ==
  \A c \in Clients : \A now \in Dates, zone \in Zones :
    LET txs == transactions[c]
        m == monthlyTotals(txs, now, zone)
        inWindow == SelectSeq(txs, LAMBDA t : DatedInMonthOf(t, now, zone)) IN
    /\ m.totalCombined = totalCombined(inWindow)
    /\ \A cat \in CategorySet : m.totals[cat] = SpentOn(inWindow, cat)
    /\ \A i \in 1..Len(txs) :
         ~DatedInMonthOf(txs[i], now, zone) =>
           LET r == monthlyTotals(RemoveAt(txs, i), now, zone) IN
           r.totals = m.totals /\ r.totalCombined = m.totalCombined

\* in January 2025 the list holds a transaction of that month and one of January
\* 2024, and the combined total is the first one's alone
C23_Witness ==
  \E c \in Clients :
    LET now == [year |-> 2025, month |-> 0, early |-> FALSE] IN
    /\ Len(transactions[c]) = 2
    /\ transactions[c][1].date = now
    /\ transactions[c][2].date = [year |-> 2024, month |-> 0, early |-> FALSE]
    /\ transactions[c][2].totalAmount > 0
    /\ monthlyTotals(transactions[c], now, "west").totalCombined = transactions[c][1].totalAmount

\* two lists hold the same transactions (id, payer, total and splits), in any order
SameTransactions(a, b) ==
  /\ Len(a) = Len(b)
  /\ {[id |-> a[i].id, userId |-> a[i].userId, totalAmount |-> a[i].totalAmount, splits |-> a[i].splits] : i \in 1..Len(a)}
       = {[id |-> b[i].id, userId |-> b[i].userId, totalAmount |-> b[i].totalAmount, splits |-> b[i].splits] : i \in 1..Len(b)}

\* C24 (as claimed): the body the v4.0 script answers to a request lists the
\* transactions of the request, and the list the client holds after adopting that
\* body is the list it sent, up to order; for every list.
C24_RoundTrip ==
  [][\A p \in Procs :
       /\ Handled(p) =>
            /\ resp'[p].status = "success" /\ resp'[p].hasTransactions
            /\ SameTransactions(resp'[p].transactions, sent[p].transactions)
       /\ (Settles(p) /\ resp[p].by = "script" /\ pc'[p] # "Blocked") =>
            SameTransactions(transactions'[ClientOf(p)], sent[p].transactions)]_vars

\* C24 (amended): the same for every list that is not empty; an empty list is not
\* stored, and its response lists what the sheet held.
C24_RoundTripOfNonEmpty ==
  [][\A p \in Procs :
       sent[p].transactions # <<>> =>
         /\ Handled(p) =>
              /\ resp'[p].status = "success" /\ resp'[p].hasTransactions
              /\ SameTransactions(resp'[p].transactions, sent[p].transactions)
         /\ (Settles(p) /\ resp[p].by = "script" /\ pc'[p] # "Blocked") =>
              SameTransactions(transactions'[ClientOf(p)], sent[p].transactions)]_vars

\* a list with a transaction of two splits went to the sheet and came back
C24_Witness ==
  \E p \in Procs :
    LET c == ClientOf(p) IN
    /\ pc[p] = "Idle" /\ lastSync[c] = "time"
    /\ \E i \in 1..Len(transactions[c]) : Len(transactions[c][i].splits) = 2
    /\ Stores(sheetTx, transactions[c])

\* C25 (as claimed): for every current instant and zone, taking a transaction dated
\* outside the current month out of the list (or putting it in) leaves the
\* settlement message, amount and owing partner, as it was.
C25_SettlementIsInWindow ==
  \A c \in Clients : \A now \in Dates, zone \in Zones :
    \A i \in 1..Len(transactions[c]) :
      ~DatedInMonthOf(transactions[c][i], now, zone) =>
        monthlySettlement(RemoveAt(transactions[c], i), now, zone)
          = monthlySettlement(transactions[c], now, zone)

\* the splits of a list that name a registered category
RegisteredOnly(txs) ==
  [i \in 1..Len(txs) |->
     [txs[i] EXCEPT !.splits = SelectSeq(@, LAMBDA sp : sp.categoryName \in CategorySet)]]

\* C26: the totals have one entry per registered category, all 0 for the empty list;
\* each entry is the sum of the in-month split amounts that name its category; and
\* the splits that name no registered category change no entry (the totals are
\* those of the list without them) and add none.
C26_UnregisteredSplitsDropped ==
  \A c \in Clients : \A now \in Dates, zone \in Zones :
    LET txs == transactions[c]
        totals == monthlyTotals(txs, now, zone).totals IN
    /\ monthlyTotals(<<>>, now, zone).totals = [cat \in CategorySet |-> 0]
    /\ DOMAIN totals = CategorySet
    /\ totals = monthlyTotals(RegisteredOnly(txs), now, zone).totals
    /\ \A cat \in CategorySet :
         totals[cat] = SpentOn(SelectSeq(txs, LAMBDA t : DatedInMonthOf(t, now, zone)), cat)

\* in January 2025 the list holds a receipt of that month split to "Groceries" and
\* a Food transaction of that month; Food's entry is the second one's amount
C26_Witness ==
  \E c \in Clients :
    LET now == [year |-> 2025, month |-> 0, early |-> FALSE] IN
    /\ Len(transactions[c]) = 2
    /\ transactions[c][1].date = now /\ transactions[c][2].date = now
    /\ transactions[c][1].splits = <<[categoryName |-> "Groceries", amount |-> 40]>>
    /\ transactions[c][2].splits = <<[categoryName |-> "Food", amount |-> 120]>>
    /\ monthlyTotals(transactions[c], now, "UTC").totals = [cat \in CategorySet |-> IF cat = "Food" THEN 120 ELSE 0]

\* C27 (as claimed): in every Budget Health list a category is flagged over budget
\* exactly when its spent total exceeds its limit and the limit is above 0; with a
\* limit of 0 or none it is never flagged.
C27_OverBudgetNeedsLimit ==
  \A c \in Clients : \A now \in Dates, zone \in Zones : \A cat \in CategorySet :
    LET spent == monthlyTotals(transactions[c], now, zone).totals[cat]
        budget == budgetOf(budgets[c], cat)
        limit == IF budgets[c][cat] = NoLimit THEN 0 ELSE budgets[c][cat] IN
    /\ isOver(spent, budget) <=> (spent > limit /\ limit > 0)
    /\ isOverV45(spent, budget) <=> (spent > limit /\ limit > 0)

\* C28 (as claimed): with one client writing to a sheet that started empty, whatever
\* is on the sheet and not in the client's list was deleted there.  In the step that
\* ends a sync with the script's data adopted, every transaction of the local list
\* and of the sheet is one the request carried, so no deleted one is in either;
\* also when the request carried none.
C28_DeletedStayDeleted ==
  [][\A p \in Procs :
       (Settles(p) /\ resp[p].by = "script" /\ resp[p].status = "success" /\ pc'[p] # "Blocked")
         => /\ Ids(transactions'[ClientOf(p)]) \subseteq Ids(sent[p].transactions)
            /\ Ids(ReadTransactions(sheetTx')) \subseteq Ids(sent[p].transactions)]_vars

\* C29 (as claimed): with edits stopped and both clients syncing again and again,
\* from some point on the two clients and the sheet hold the same transactions.
C29_SyncsConverge ==
  <>[](/\ transactions["c1"] = transactions["c2"]
       /\ Stores(sheetTx, transactions["c1"]))

\* C30 (as claimed): when the v4.0 script answers a request with status "error", the
\* Transactions and Budgets sheets hold what they held before the request.
C30_ErrorLeavesStoreAsItWas ==
  [][\A p \in Procs :
       (Handled(p) /\ resp'[p].status = "error")
         => /\ sheetTx' = sheetTx
            /\ sheetBudgets' = sheetBudgets]_vars

====
